---- MODULE Spec2Model ----
(***************************************************************************)
(* A model of websurfx's result cache (src/cache/cacher.rs: RedisCache)    *)
(* and of its DuckDuckGo engine (src/engines/duckduckgo.rs).               *)
(*                                                                         *)
(* Spec     the cache client: construction, cached_json, cache_results,    *)
(*          the redis server it talks to, and the passing of time.         *)
(* SpecDdg  one call of DuckDuckGo::results on inputs drawn from bounded   *)
(*          sets.                                                          *)
(***************************************************************************)
EXTENDS Integers, Sequences, FiniteSets, TLC

VARIABLES
    \* ---- RedisCache (cacher.rs:21-25) and its construction
    built,               \* "none" | "ok" | "err": what RedisCache::new returned
    new_args,            \* the arguments and environment of the call of new
    connection_pool,     \* Vec<ConnectionManager>
    pool_size,           \* u8
    current_connection,  \* u8
    \* ---- callers of cached_json / cache_results
    borrow,              \* who holds the `&mut self` borrow, or "none"
    pc,                  \* per caller: "idle" | "await" | "done" | "panicked"
    op,                  \* per caller: the call's arguments
    attempts,            \* per caller: the commands sent so far, with their results
    result,              \* per caller: what the call returned
    last_index,          \* the last value used to index connection_pool (-1: none)
    returned,            \* the cursor as the last call that returned left it (-1: none)
    \* ---- the redis server and the clock
    store,               \* key -> [val, ttl]
    written,             \* key -> the last successful put: [val, age, clean]
    \* ---- one call of DuckDuckGo::results
    d_pc, d_in, d_url, d_fetches, d_fetched, d_doc, d_out

cacheVars == <<built, new_args, connection_pool, pool_size, current_connection,
               borrow, pc, op, attempts, result, last_index, returned, store,
               written>>
ddgVars == <<d_pc, d_in, d_url, d_fetches, d_fetched, d_doc, d_out>>
vars == <<cacheVars, ddgVars>>

----------------------------------------------------------------------------
\* Bounds of the model.

\* The largest pool size handed to RedisCache::new.
MaxPool == 2
\* The seconds that pass in one step of the clock.
TickSecs == 30

\* Program constants.

\* The expiry of set_ex.
TTL == 60
\* u8: the width of pool_size and current_connection.
U8Mod == 256

Callers == {"c1", "c2"}
Urls == {"u1", "u2"}
Values == {"v1", "v2"}

NoOp == [kind |-> "none", url |-> "", val |-> ""]
NoResult == [tag |-> "none", val |-> "", err |-> ""]
Nil == [val |-> "nil", ttl |-> 0]
NoWrite == [val |-> "nil", age |-> 0, clean |-> FALSE]

----------------------------------------------------------------------------
\* RedisCache::hash_url: format!("{:?}", md5::compute(url)), the hex digest of
\* the url. The digests of the model's urls, which differ.
hash_url(url) ==
    CASE url = "u1" -> "d41f0a"
      [] url = "u2" -> "9b2c77"
      [] OTHER -> "e3b0c4"

Keys == {hash_url(u) : u \in Urls}

\* A join that keeps the connections made before the first failure.
try_join_all_partial(size, failAt) ==
    IF failAt = 0
    THEN [ok |-> TRUE, conns |-> [i \in 1..size |-> i]]
    ELSE [ok |-> TRUE, conns |-> [i \in 1..(failAt - 1) |-> i]]

\* try_join_all(tasks): every connection, or the first error. failAt is the
\* first connection attempt that fails (0: none does).
try_join_all(size, failAt) ==
    IF failAt = 0
    THEN [ok |-> TRUE, conns |-> [i \in 1..size |-> i]]
    ELSE [ok |-> FALSE, conns |-> <<>>]

\* A classification that takes every error for a dropped connection.
is_connection_dropped_any(err) == TRUE

\* RedisError::is_connection_dropped, as the match of the loop uses it.
is_connection_dropped(err) == err = "BrokenPipe"

\* The command of the first attempt: get(key), or set_ex(key, value, 60).
FirstCommand_keyed_by_kind(o) ==
    IF o.kind = "get"
    THEN [name |-> "GET", key |-> hash_url(o.url), val |-> "", ex |-> 0]
    ELSE [name |-> "SETEX", key |-> hash_url(o.val), val |-> o.val, ex |-> TTL]

\* The command of the first attempt.
FirstCommand(o) ==
    IF o.kind = "get"
    THEN [name |-> "GET", key |-> hash_url(o.url), val |-> "", ex |-> 0]
    ELSE [name |-> "SETEX", key |-> hash_url(o.url), val |-> o.val, ex |-> TTL]

\* A retry that writes with another expiry than the first attempt.
RetryCommand_longer(o) ==
    IF o.kind = "get"
    THEN [name |-> "GET", key |-> hash_url(o.url), val |-> "", ex |-> 0]
    ELSE [name |-> "SETEX", key |-> hash_url(o.url), val |-> o.val, ex |-> TTL + TTL]

\* The command of a retry: the same call as the first attempt.
RetryCommand(o) ==
    IF o.kind = "get"
    THEN [name |-> "GET", key |-> hash_url(o.url), val |-> "", ex |-> 0]
    ELSE [name |-> "SETEX", key |-> hash_url(o.url), val |-> o.val, ex |-> TTL]

\* The redis server executing a command: the store after it.
ServerStore(cmd, st) ==
    IF cmd.name = "SETEX"
    THEN [st EXCEPT ![cmd.key] = [val |-> cmd.val, ttl |-> cmd.ex]]
    ELSE st

\* The redis server's reply to a command.
ServerReply(cmd, st) ==
    IF cmd.name = "SETEX" THEN "OK"
    ELSE st[cmd.key].val

\* The typed result of an attempt whose reply arrived: get::<String> turns
\* a nil reply into a type error, set_ex::<()> accepts the reply.
from_redis_value(cmd, reply) ==
    IF cmd.name = "GET"
    THEN IF reply = "nil"
         THEN [ok |-> FALSE, val |-> "", err |-> "TypeError"]
         ELSE [ok |-> TRUE, val |-> reply, err |-> ""]
    ELSE [ok |-> TRUE, val |-> "unit", err |-> ""]

\* What the network does to an attempt: the result the client sees.
AttemptResult(net, cmd, st) ==
    CASE net = "ok" -> from_redis_value(cmd, ServerReply(cmd, st))
      [] net \in {"drop_before", "drop_after"} ->
            [ok |-> FALSE, val |-> "", err |-> "BrokenPipe"]
      [] OTHER -> [ok |-> FALSE, val |-> "", err |-> "ResponseError"]

\* Whether the server executed the command.
Executed(net) == net \in {"ok", "drop_after"}

Nets == {"ok", "drop_before", "drop_after", "server_err"}

\* A failover that does not move to the next connection.
reset_connection_sticky(cur) == cur

\* self.current_connection = Default::default()
reset_connection(cur) == 0

NextConnection_stay(cur) == cur

\* self.current_connection += 1, in u8.
NextConnection(cur) == (cur + 1) % U8Mod

\* The fields of the client.
Self ==
    [connection_pool |-> connection_pool, pool_size |-> pool_size,
     current_connection |-> current_connection]

on_connection_dropped_discard(self) ==
    [connection_pool |->
        [i \in 1..(Len(self.connection_pool) - 1) |->
            IF i <= self.current_connection THEN self.connection_pool[i]
            ELSE self.connection_pool[i + 1]],
     pool_size |-> self.pool_size - 1,
     current_connection |-> self.current_connection]

\* What the loop does to the client when the attempt was dropped: the cursor
\* moves on, the connection stays where it is.
on_connection_dropped(self) ==
    [self EXCEPT !.current_connection = NextConnection(self.current_connection)]

\* if self.current_connection == self.pool_size, in cached_json.
cached_json_exhausted(self) == self.current_connection = self.pool_size

cache_results_exhausted_late(self) == self.current_connection > self.pool_size

\* if self.current_connection == self.pool_size, in cache_results.
cache_results_exhausted(self) == self.current_connection = self.pool_size

\* `&mut self`: a call needs the exclusive borrow of the client.
MutBorrowFree == borrow = "none"

\* connection_pool[i as usize]: in range or a panic.
InRange(i) == i < Len(connection_pool)

\* A caller takes the result of its call before anything else happens: the
\* result is kept for one state only.
NoneDone == \A c \in Callers : pc[c] # "done"

\* An attempt sent on connection i, not yet answered.
Attempt(i, cmd) ==
    [conn |-> i, cmd |-> cmd, out |-> "pending", reply |-> "", got |-> "",
     seen |-> NoWrite]

----------------------------------------------------------------------------
InitCache ==
    /\ built = "none"
    /\ new_args = [size |-> 0, url_ok |-> TRUE, failAt |-> 0]
    /\ connection_pool = <<>>
    /\ pool_size = 0
    /\ current_connection = 0
    /\ borrow = "none"
    /\ pc = [c \in Callers |-> "idle"]
    /\ op = [c \in Callers |-> NoOp]
    /\ attempts = [c \in Callers |-> <<>>]
    /\ result = [c \in Callers |-> NoResult]
    /\ last_index = -1
    /\ returned = -1
    /\ store = [k \in Keys |-> Nil]
    /\ written = [k \in Keys |-> NoWrite]

\* RedisCache::new(redis_connection_url, pool_size)
New(size, url_ok, failAt) ==
    /\ built = "none"
    /\ new_args' = [size |-> size, url_ok |-> url_ok, failAt |-> failAt]
    /\ LET joined == try_join_all(size, failAt) IN
       IF url_ok /\ joined.ok
       THEN /\ built' = "ok"
            /\ connection_pool' = joined.conns
            /\ pool_size' = size
            /\ current_connection' = 0
       ELSE /\ built' = "err"
            /\ UNCHANGED <<connection_pool, pool_size, current_connection>>
    /\ UNCHANGED <<borrow, pc, op, attempts, result, last_index, returned, store,
                   written>>
    /\ UNCHANGED ddgVars

\* cached_json(url) / cache_results(json_results, url) up to the first await.
Call(c, kind, url, val) ==
    /\ built = "ok"
    /\ NoneDone
    /\ pc[c] = "idle"
    /\ MutBorrowFree
    /\ LET o == [kind |-> kind, url |-> url, val |-> val]
           first == reset_connection(current_connection)
       IN
       /\ op' = [op EXCEPT ![c] = o]
       /\ current_connection' = first
       /\ last_index' = first
       /\ result' = [result EXCEPT ![c] = NoResult]
       /\ IF InRange(first)
          THEN /\ attempts' = [attempts EXCEPT ![c] =
                      <<Attempt(first, FirstCommand(o))>>]
               /\ pc' = [pc EXCEPT ![c] = "await"]
               /\ borrow' = c
          ELSE /\ attempts' = [attempts EXCEPT ![c] = <<>>]
               /\ pc' = [pc EXCEPT ![c] = "panicked"]
               /\ borrow' = "none"
       /\ written' = IF kind = "put"
                     THEN [written EXCEPT ![hash_url(url)].clean = FALSE]
                     ELSE written
    /\ UNCHANGED <<built, new_args, connection_pool, pool_size, returned, store>>
    /\ UNCHANGED ddgVars

\* The pending attempt of caller c is answered, and the loop runs to the next
\* await or to the return.
Answer(c, net) ==
    /\ pc[c] = "await"
    /\ NoneDone
    /\ LET n == Len(attempts[c])
           a == attempts[c][n]
           r == AttemptResult(net, a.cmd, store)
           done == [a EXCEPT !.out = IF r.ok THEN "Ok" ELSE r.err,
                             !.reply = IF net = "ok" THEN ServerReply(a.cmd, store)
                                       ELSE "",
                             !.got = r.val,
                             !.seen = IF net = "ok" THEN written[a.cmd.key]
                                      ELSE NoWrite]
           log == [attempts[c] EXCEPT ![n] = done]
           self == on_connection_dropped(Self)
           next == self.current_connection
           exhausted == IF op[c].kind = "get" THEN cached_json_exhausted(self)
                        ELSE cache_results_exhausted(self)
       IN
       /\ store' = IF Executed(net) THEN ServerStore(a.cmd, store) ELSE store
       /\ written' = IF r.ok /\ a.cmd.name = "SETEX"
                     THEN [written EXCEPT ![a.cmd.key] =
                              [val |-> a.cmd.val, age |-> 0, clean |-> TRUE]]
                     ELSE written
       /\ IF r.ok
          THEN /\ result' = [result EXCEPT ![c] = [tag |-> "Ok", val |-> r.val, err |-> ""]]
               /\ attempts' = [attempts EXCEPT ![c] = log]
               /\ pc' = [pc EXCEPT ![c] = "done"]
               /\ borrow' = IF borrow = c THEN "none" ELSE borrow
               /\ UNCHANGED <<connection_pool, pool_size, current_connection,
                              last_index>>
          ELSE IF is_connection_dropped(r.err)
          THEN /\ connection_pool' = self.connection_pool
               /\ pool_size' = self.pool_size
               /\ current_connection' = next
               /\ IF exhausted
                  THEN /\ result' = [result EXCEPT ![c] =
                              [tag |-> "PoolExhaustionWithConnectionDropError",
                               val |-> "", err |-> ""]]
                       /\ attempts' = [attempts EXCEPT ![c] = log]
                       /\ pc' = [pc EXCEPT ![c] = "done"]
                       /\ borrow' = IF borrow = c THEN "none" ELSE borrow
                       /\ UNCHANGED last_index
                  ELSE /\ last_index' = next
                       /\ UNCHANGED result
                       /\ IF next < Len(self.connection_pool)
                          THEN /\ attempts' = [attempts EXCEPT ![c] =
                                      Append(log, Attempt(next, RetryCommand(op[c])))]
                               /\ UNCHANGED <<pc, borrow>>
                          ELSE /\ attempts' = [attempts EXCEPT ![c] = log]
                               /\ pc' = [pc EXCEPT ![c] = "panicked"]
                               /\ borrow' = IF borrow = c THEN "none" ELSE borrow
          ELSE /\ result' = [result EXCEPT ![c] =
                      [tag |-> "RedisError", val |-> "", err |-> r.err]]
               /\ attempts' = [attempts EXCEPT ![c] = log]
               /\ pc' = [pc EXCEPT ![c] = "done"]
               /\ borrow' = IF borrow = c THEN "none" ELSE borrow
               /\ UNCHANGED <<connection_pool, pool_size, current_connection,
                              last_index>>
    /\ UNCHANGED <<built, new_args, op, returned>>
    /\ UNCHANGED ddgVars

\* The caller has taken the result of its call.
Return(c) ==
    /\ pc[c] = "done"
    /\ pc' = [pc EXCEPT ![c] = "idle"]
    /\ op' = [op EXCEPT ![c] = NoOp]
    /\ attempts' = [attempts EXCEPT ![c] = <<>>]
    /\ result' = [result EXCEPT ![c] = NoResult]
    /\ returned' = current_connection
    /\ UNCHANGED <<built, new_args, connection_pool, pool_size, current_connection,
                   borrow, last_index, store, written>>
    /\ UNCHANGED ddgVars

\* TickSecs seconds pass: the server expires what has lived its ttl.
Min(a, b) == IF a < b THEN a ELSE b

Tick ==
    /\ NoneDone
    /\ \E k \in Keys : store[k] # Nil \/ (written[k] # NoWrite /\ written[k].age < TTL)
    /\ store' = [k \in Keys |->
                    IF store[k] = Nil \/ store[k].ttl <= TickSecs
                    THEN Nil
                    ELSE [store[k] EXCEPT !.ttl = @ - TickSecs]]
    /\ written' = [k \in Keys |->
                    IF written[k] = NoWrite THEN NoWrite
                    ELSE [written[k] EXCEPT !.age = Min(@ + TickSecs, TTL)]]
    /\ UNCHANGED <<built, new_args, connection_pool, pool_size, current_connection,
                   borrow, pc, op, attempts, result, last_index, returned>>
    /\ UNCHANGED ddgVars

----------------------------------------------------------------------------
\* DuckDuckGo::results(query, page, user_agent, request_timeout)

\* Bounds of the model.

\* The small page numbers run 0..MaxPage (the large ones are in Pages).
MaxPage == 5
\* The most result containers of a fetched document.
MaxContainers == 2

\* u32, the type of page, as two 16-bit halves [hi, lo]: W16 is 2^16. The value
\* of a pair is hi * 2^16 + lo; a u32 has hi < W16, and a pair with a larger hi
\* is an integer that does not fit in 32 bits.
W16 == 65536

U32(n) == [hi |-> 0, lo |-> n]
Fits32(x) == x.hi < W16
Wrap32(x) == [hi |-> x.hi % W16, lo |-> x.lo]
Norm(hi, lo) == [hi |-> hi + (lo \div W16), lo |-> lo % W16]
\* Exact arithmetic on pairs.
Half(x) == [hi |-> x.hi \div 2, lo |-> (x.hi % 2) * (W16 \div 2) + (x.lo \div 2)]
Mod2(x) == x.lo % 2
Plus(x, k) == Norm(x.hi, x.lo + k)
Times(x, k) == Norm(x.hi * k, x.lo * k)

\* page / 2 + (page % 2): never more than 2^31.
HalfUp(page) == Plus(Half(page), Mod2(page))

\* (page / 2 + (page % 2)) * 30 in u32, as the build computes it: with overflow
\* checks (a debug build) an overflow panics, without them the product wraps.
StartOffset(page, overflow_checks) ==
    LET exact == Times(HalfUp(page), 30) IN
    IF Fits32(exact) THEN [panic |-> FALSE, v |-> exact]
    ELSE IF overflow_checks THEN [panic |-> TRUE, v |-> U32(0)]
    ELSE [panic |-> FALSE, v |-> Wrap32(exact)]

\* (page / 2 + (page % 2)) * 30 + 1 in u32.
SecondOffset(page, overflow_checks) ==
    LET first == StartOffset(page, overflow_checks)
        exact == Plus(first.v, 1)
    IN
    IF first.panic THEN first
    ELSE IF Fits32(exact) THEN [panic |-> FALSE, v |-> exact]
    ELSE IF overflow_checks THEN [panic |-> TRUE, v |-> U32(0)]
    ELSE [panic |-> FALSE, v |-> Wrap32(exact)]

\* The match on page: the url, with its s and dc parameters (<<>>: empty).
BuildUrl(query, page, overflow_checks) ==
    IF page = U32(0) \/ page = U32(1)
    THEN [panic |-> FALSE, host |-> "html.duckduckgo.com", q |-> query,
          s |-> <<>>, dc |-> <<>>]
    ELSE LET s == StartOffset(page, overflow_checks)
             dc == SecondOffset(page, overflow_checks)
         IN
         IF s.panic \/ dc.panic
         THEN [panic |-> TRUE, host |-> "", q |-> query, s |-> <<>>, dc |-> <<>>]
         ELSE [panic |-> FALSE, host |-> "duckduckgo.com", q |-> query,
               s |-> <<s.v>>, dc |-> <<dc.v>>]

\* The pages tried: the small ones, and around the largest page whose offsets
\* fit in a u32 (286331152 = 4369 * 2^16 + 4368), up to u32::MAX.
Pages ==
    {U32(n) : n \in 0..MaxPage}
        \cup {[hi |-> 4369, lo |-> 4368], [hi |-> 4369, lo |-> 4369],
              [hi |-> W16 - 1, lo |-> W16 - 1]}

\* str::trim on a text, a sequence of characters.
RECURSIVE TrimStart(_)
TrimStart(t) ==
    IF t # <<>> /\ Head(t) = " " THEN TrimStart(Tail(t)) ELSE t

RECURSIVE TrimEnd(_)
TrimEnd(t) ==
    IF t # <<>> /\ t[Len(t)] = " " THEN TrimEnd(SubSeq(t, 1, Len(t) - 1)) ELSE t

trim(t) == TrimEnd(TrimStart(t))

\* An element is the sequence of its child nodes: a character of text, or a
\* <b> element around one (the upstream marks the words of the query so).
Txt(ch) == [tag |-> "", text |-> ch]
Bold(ch) == [tag |-> "b", text |-> ch]

\* ElementRef::inner_html: the children serialized, markup included.
RECURSIVE inner_html(_)
inner_html(nodes) ==
    IF nodes = <<>> THEN <<>>
    ELSE (IF Head(nodes).tag = ""
          THEN <<Head(nodes).text>>
          ELSE <<"<b>", Head(nodes).text, "</b>">>) \o inner_html(Tail(nodes))

\* The elements a container holds for a selector: each field of a container
\* is the sequence of the matches (none, or one).
TitleTexts == {<<>>, <<<<Txt(" "), Txt("T"), Txt(" ")>>>>, <<<<Bold("U")>>>>}
UrlTexts == {<<>>, <<<<Txt(" "), Txt("a"), Txt(" ")>>>>, <<<<Txt("a")>>>>,
             <<<<Txt("b")>>>>}
SnippetTexts == {<<>>, <<<<Txt("d"), Txt(" ")>>>>}

\* The result containers tried: the well-formed ones, and one lacking each
\* sub-element.
Containers ==
    {c \in [result__a : TitleTexts, result__url : UrlTexts,
            result__snippet : SnippetTexts] :
        \/ c.result__a # <<>> /\ c.result__url # <<>> /\ c.result__snippet # <<>>
        \/ /\ Cardinality({f \in {"result__a", "result__url", "result__snippet"} :
                              c[f] = <<>>}) = 1
           /\ c.result__a \in {<<>>, <<<<Bold("U")>>>>}
           /\ c.result__url \in {<<>>, <<<<Txt("b")>>>>}}

SeqsUpTo(S, n) == UNION {[1..k -> S] : k \in 0..n}

\* The documents Html::parse_document may return.
Documents ==
    [no_results : BOOLEAN, results : SeqsUpTo(Containers, MaxContainers)]

NoDocument == [no_results |-> FALSE, results |-> <<>>]

\* Selector::parse on the literals of the function: each is a valid selector.
SelectorParses(pattern) ==
    pattern \in {".no-results", ".result", ".result__a", ".result__url",
                 ".result__snippet"}

\* A marker check that never finds the marker.
HasNoResults_never(doc) == FALSE

\* document.select(&no_result).next().is_some()
HasNoResults(doc) == doc.no_results

\* .select(..).next().unwrap() on every sub-element of a container.
Unwraps(c) ==
    c.result__a # <<>> /\ c.result__url # <<>> /\ c.result__snippet # <<>>

\* SearchResult::new(title, url, description, engines): the record of its
\* arguments.
SearchResult_new(title, url, description, engines) ==
    [title |-> title, url |-> url, description |-> description,
     engines |-> {engines[i] : i \in 1..Len(engines)}]

SearchResultOf_untrimmed(c) ==
    SearchResult_new(inner_html(Head(c.result__a)),
                     <<"https://">> \o inner_html(Head(c.result__url)),
                     inner_html(Head(c.result__snippet)),
                     <<"duckduckgo">>)

\* The closure of the scrape: the SearchResult of a container.
SearchResultOf(c) ==
    SearchResult_new(trim(inner_html(Head(c.result__a))),
                     <<"https://">> \o trim(inner_html(Head(c.result__url))),
                     trim(inner_html(Head(c.result__snippet))),
                     <<"duckduckgo">>)

Propagate_changed(e) == "UnexpectedError"

\* `?` on the result of fetch_html_from_upstream: the error as it came.
Propagate(e) == e

Insert_keep_first(m, k, v) ==
    [x \in DOMAIN m \cup {k} |-> IF x \in DOMAIN m THEN m[x] ELSE v]

\* HashMap::insert
Insert(m, k, v) == [x \in DOMAIN m \cup {k} |-> IF x = k THEN v ELSE m[x]]

\* .map(|search_result| (search_result.url.clone(), search_result)).collect()
RECURSIVE Collect(_, _)
Collect(results, m) ==
    IF results = <<>> THEN m
    ELSE LET r == SearchResultOf(Head(results)) IN
         Collect(Tail(results), Insert(m, r.url, r))

NoOut == [tag |-> "none", err |-> "", map |-> <<>>]
Err(e) == [tag |-> "Err", err |-> e, map |-> <<>>]

InitDdgIdle ==
    /\ d_pc = "off"
    /\ d_in = [page |-> U32(0), user_agent_ok |-> TRUE]
    /\ d_url = [panic |-> FALSE, host |-> "", q |-> "", s |-> <<>>, dc |-> <<>>]
    /\ d_fetches = 0
    /\ d_fetched = "none"
    /\ d_doc = NoDocument
    /\ d_out = NoOut

InitDdg ==
    /\ d_pc = "url"
    /\ d_in \in [page : Pages, user_agent_ok : BOOLEAN]
    /\ d_url = [panic |-> FALSE, host |-> "", q |-> "", s |-> <<>>, dc |-> <<>>]
    /\ d_fetches = 0
    /\ d_fetched = "none"
    /\ d_doc = NoDocument
    /\ d_out = NoOut

\* let url = match page { .. }, in a build with or without overflow checks.
D_Url(overflow_checks) ==
    /\ d_pc = "url"
    /\ d_url' = BuildUrl("query", d_in.page, overflow_checks)
    /\ d_pc' = IF d_url'.panic THEN "panicked" ELSE "headers"
    /\ UNCHANGED <<d_in, d_fetches, d_fetched, d_doc, d_out>>
    /\ UNCHANGED cacheVars

\* HeaderMap::try_from(..).change_context(EngineError::UnexpectedError)?
D_Headers ==
    /\ d_pc = "headers"
    /\ IF d_in.user_agent_ok
       THEN /\ d_pc' = "fetch"
            /\ UNCHANGED d_out
       ELSE /\ d_pc' = "done"
            /\ d_out' = Err("UnexpectedError")
    /\ UNCHANGED <<d_in, d_url, d_fetches, d_fetched, d_doc>>
    /\ UNCHANGED cacheVars

\* Html::parse_document(&fetch_html_from_upstream(..).await?)
D_Fetch(fetched, doc) ==
    /\ d_pc = "fetch"
    /\ d_fetches' = d_fetches + 1
    /\ d_fetched' = fetched
    /\ IF fetched = "Ok"
       THEN /\ d_doc' = doc
            /\ d_pc' = "no_results"
            /\ UNCHANGED d_out
       ELSE /\ d_pc' = "done"
            /\ d_out' = Err(Propagate(fetched))
            /\ UNCHANGED d_doc
    /\ UNCHANGED <<d_in, d_url>>
    /\ UNCHANGED cacheVars

\* The .no-results selector and its check.
D_NoResults ==
    /\ d_pc = "no_results"
    /\ IF ~SelectorParses(".no-results")
       THEN /\ d_pc' = "done"
            /\ d_out' = Err("UnexpectedError")
       ELSE IF HasNoResults(d_doc)
       THEN /\ d_pc' = "done"
            /\ d_out' = Err("EmptyResultSet")
       ELSE /\ d_pc' = "extract"
            /\ UNCHANGED d_out
    /\ UNCHANGED <<d_in, d_url, d_fetches, d_fetched, d_doc>>
    /\ UNCHANGED cacheVars

\* The four result selectors, and the scrape of every .result container.
D_Extract ==
    /\ d_pc = "extract"
    /\ IF \E p \in {".result", ".result__a", ".result__url", ".result__snippet"} :
             ~SelectorParses(p)
       THEN /\ d_pc' = "done"
            /\ d_out' = Err("UnexpectedError")
       ELSE IF \E i \in 1..Len(d_doc.results) : ~Unwraps(d_doc.results[i])
       THEN /\ d_pc' = "panicked"
            /\ UNCHANGED d_out
       ELSE /\ d_pc' = "done"
            /\ d_out' = [tag |-> "Ok", err |-> "", map |-> Collect(d_doc.results, <<>>)]
    /\ UNCHANGED <<d_in, d_url, d_fetches, d_fetched, d_doc>>
    /\ UNCHANGED cacheVars

\* What fetch_html_from_upstream returns: the html, or an EngineError.
FetchOutcomes == {"Ok", "RequestError", "UnexpectedError"}

NextDdg ==
    \/ \E overflow_checks \in BOOLEAN : D_Url(overflow_checks)
    \/ D_Headers
    \/ \E fetched \in FetchOutcomes, doc \in Documents : D_Fetch(fetched, doc)
    \/ D_NoResults
    \/ D_Extract

InitOfDdg == InitCache /\ InitDdg

SpecDdg == InitOfDdg /\ [][NextDdg]_vars

----------------------------------------------------------------------------
Init == InitCache /\ InitDdgIdle

Next ==
    \/ \E size \in 0..MaxPool, url_ok \in BOOLEAN, failAt \in 0..MaxPool :
          failAt <= size /\ New(size, url_ok, failAt)
    \/ \E c \in Callers, u \in Urls : Call(c, "get", u, "")
    \/ \E c \in Callers, u \in Urls, v \in Values : Call(c, "put", u, v)
    \/ \E c \in Callers, net \in Nets : Answer(c, net)
    \/ \E c \in Callers : Return(c)
    \/ Tick

Spec == Init /\ [][Next]_vars

----------------------------------------------------------------------------
\* Vocabulary of the claims about the cache.

Started(c) == pc[c] # "idle"
Dropped(e) == e.out = "BrokenPipe"
OtherError(e) == e.out \in {"ResponseError", "TypeError"}
PoolExhausted == [tag |-> "PoolExhaustionWithConnectionDropError", val |-> "", err |-> ""]
IsError(r) == r.tag \in {"PoolExhaustionWithConnectionDropError", "RedisError"}
IsHit(r) == r.tag = "Ok"
\* The attempts of an operation went to the connections 0, 1, 2, .. in order.
InOrder(log) == \A i \in 1..Len(log) : log[i].conn = i - 1

\* C1 (failover bound): on a pool of size N >= 1, when the connections 0..k-1
\* (k < N) have each answered the attempt with a connection-dropped error and
\* connection k has answered successfully, the operation has returned success
\* with the answer of connection k, after exactly k+1 attempts, one on each of
\* the connections 0..k in that order and none on a later one.
C1_FailoverSuccess ==
    \A c \in Callers :
        LET log == attempts[c]
            n == Len(log)
        IN
        (/\ n >= 1
         /\ log[n].out = "Ok"
         /\ \A i \in 1..(n - 1) : Dropped(log[i]))
        => /\ pc[c] = "done"
           /\ result[c] = [tag |-> "Ok", val |-> log[n].got, err |-> ""]
           /\ log[n].got = (from_redis_value(log[n].cmd, log[n].reply)).val
           /\ InOrder(log)
           /\ n <= pool_size
           /\ pool_size = Len(connection_pool)

\* A get or a put has succeeded on the second connection, after the first was
\* dropped.
C1_Witness ==
    \E c \in Callers :
        /\ pc[c] = "done"
        /\ IsHit(result[c])
        /\ Len(attempts[c]) = 2
        /\ Dropped(attempts[c][1])
        /\ attempts[c][2].conn = 1

\* C2 (pool exhaustion), as claimed: on a pool of size N, an operation whose
\* attempts on all N connections were answered with a connection-dropped error
\* has failed with PoolExhausted after exactly N attempts, and PoolExhausted is
\* returned only then.
C2_ExhaustedAfterAll ==
    \A c \in Callers :
        LET log == attempts[c] IN
        Started(c) =>
            /\ (Len(log) = pool_size /\ \A i \in 1..Len(log) : Dropped(log[i]))
                    => (pc[c] = "done" /\ result[c] = PoolExhausted)
            /\ result[c] = PoolExhausted
                    => (Len(log) = pool_size /\ \A i \in 1..Len(log) : Dropped(log[i]))

\* C2 on the pools that hold a connection: there the code does what is claimed.
C2_OnNonEmptyPool == pool_size >= 1 => C2_ExhaustedAfterAll

\* C3 (fail fast): once an attempt, the first or a later one, has failed with an
\* error that is not connection-dropped, the operation has failed with the
\* RedisError wrapping that error, and that attempt is its last: no other
\* connection is tried (one attempt in all when it was the first).
C3_FailFast ==
    \A c \in Callers :
        LET log == attempts[c] IN
        \A i \in 1..Len(log) :
            OtherError(log[i])
                => /\ i = Len(log)
                   /\ pc[c] = "done"
                   /\ result[c] = [tag |-> "RedisError", val |-> "", err |-> log[i].out]
                   /\ InOrder(log)
                   /\ \A j \in 1..(i - 1) : Dropped(log[j])

\* An operation failed over once and then met an error reply of the server.
C3_Witness ==
    \E c \in Callers :
        /\ pc[c] = "done"
        /\ Len(attempts[c]) = 2
        /\ attempts[c][2].out = "ResponseError"
        /\ result[c].tag = "RedisError"

\* C4 (cursor range), as claimed: for every pool size new accepts, the cursor
\* is in 0..pool_size, and a value used to index the pool is less than
\* pool_size.
C4_CursorInRange ==
    built = "ok" =>
        /\ current_connection \in 0..pool_size
        /\ last_index # -1 => last_index < pool_size

\* C5 (cache miss), as claimed: a get whose key the server does not hold and
\* whose reply arrived ends in a not-found outcome that is neither an error
\* (PoolExhausted, RedisError) nor a hit.
C5_TypedNotFound ==
    \A c \in Callers :
        LET log == attempts[c]
            n == Len(log)
        IN
        (/\ pc[c] = "done"
         /\ op[c].kind = "get"
         /\ n >= 1
         /\ log[n].reply = "nil")
        => (~IsError(result[c]) /\ ~IsHit(result[c]))

\* What cached_json returns for a key the server does not hold: the nil reply
\* fails the conversion to String, and the error is returned wrapped.
Miss == [tag |-> "RedisError", val |-> "", err |-> "TypeError"]

C6_HitWitness ==
    \E c \in Callers :
        /\ pc[c] = "done"
        /\ op[c].kind = "get"
        /\ attempts[c][Len(attempts[c])].seen.clean
        /\ attempts[c][Len(attempts[c])].seen.age > 0
        /\ IsHit(result[c])

\* C7 (no interference on the cursor), as claimed: every operation tries the
\* connections 0, 1, 2, .. in order, never indexes the pool out of range, and
\* reports PoolExhausted only when it has itself received pool_size
\* connection-dropped answers.
C7_OwnCursor ==
    \A c \in Callers :
        LET log == attempts[c] IN
        /\ InOrder(log)
        /\ pc[c] # "panicked"
        /\ result[c] = PoolExhausted
              => Cardinality({i \in 1..Len(log) : Dropped(log[i])}) = pool_size

\* C7 on the pools that hold a connection.
C7_OnNonEmptyPool == pool_size >= 1 => C7_OwnCursor

\* C8 (construction is all-or-nothing): new returns a client only when the
\* address opened and every one of the pool_size connection attempts succeeded;
\* the client then holds exactly pool_size connections, the configured
\* pool_size, and, until the first call, a cursor of 0. When new returns an
\* error there is no client: no pool, partial or not, and no operation.
C8_AllOrNothing ==
    /\ built = "ok" <=> (built # "none" /\ new_args.url_ok /\ new_args.failAt = 0)
    /\ built = "ok"
          => /\ Len(connection_pool) = new_args.size
             /\ pool_size = new_args.size
             /\ last_index = -1 => current_connection = 0
    /\ built = "err"
          => /\ connection_pool = <<>>
             /\ \A c \in Callers : ~Started(c)

\* new failed on its second connection attempt, the first having succeeded.
C8_Witness ==
    /\ built = "err"
    /\ new_args.url_ok
    /\ new_args.failAt = 2
    /\ connection_pool = <<>>

----------------------------------------------------------------------------
\* Vocabulary of the claims about DuckDuckGo::results.

\* ceil(page / 2), exactly.
CeilHalf(page) == Half(Plus(page, 1))
UrlBuilt == d_pc # "url"

\* C9 (pagination), as claimed: pages 0 and 1 give a url with empty s and dc;
\* every page >= 2 gives s = n * 30 and dc = n * 30 + 1, the integers, where
\* n = floor(page / 2) + page mod 2 = ceil(page / 2); so the pages 2, 3, 4, 5
\* give (30, 31), (60, 61), (60, 61), (90, 91).
C9_Offsets ==
    UrlBuilt =>
        LET page == d_in.page
            n == CeilHalf(page)
        IN
        /\ HalfUp(page) = n
        /\ IF page \in {U32(0), U32(1)}
           THEN d_url.s = <<>> /\ d_url.dc = <<>>
           ELSE /\ ~d_url.panic
                /\ d_url.s = <<Times(n, 30)>>
                /\ d_url.dc = <<Plus(Times(n, 30), 1)>>
        /\ page = U32(2) => (d_url.s = <<U32(30)>> /\ d_url.dc = <<U32(31)>>)
        /\ page \in {U32(3), U32(4)} => (d_url.s = <<U32(60)>> /\ d_url.dc = <<U32(61)>>)
        /\ page = U32(5) => (d_url.s = <<U32(90)>> /\ d_url.dc = <<U32(91)>>)

\* C9 on the pages whose offsets fit in a u32.
C9_WhereItFits == Fits32(Plus(Times(CeilHalf(d_in.page), 30), 1)) => C9_Offsets

\* C10 (empty-result detection): when the fetched document holds the
\* no-results marker, results fails with EmptyResultSet and returns no mapping,
\* whatever result containers the document holds: the call never reaches the
\* extraction of the containers.
C10_EmptyResultSet ==
    (d_pc \in {"extract", "done", "panicked"} /\ d_fetches = 1 /\ d_doc.no_results)
        => /\ d_pc = "done"
           /\ d_out = [tag |-> "Err", err |-> "EmptyResultSet", map |-> <<>>]

\* The document held the marker and a container lacking a sub-element, which
\* the extraction would not have survived.
C10_Witness ==
    /\ d_pc = "done"
    /\ d_doc.no_results
    /\ \E i \in 1..Len(d_doc.results) : ~Unwraps(d_doc.results[i])
    /\ d_out.err = "EmptyResultSet"

----------------------------------------------------------------------------
\* Vocabulary of the claims about the extraction.

\* The call fetched a document without the marker and is past its scrape.
Scraped ==
    d_fetched = "Ok" /\ ~d_doc.no_results /\ d_pc \in {"done", "panicked"}

WellFormed(c) ==
    c.result__a # <<>> /\ c.result__url # <<>> /\ c.result__snippet # <<>>

AllWellFormed(doc) == \A i \in 1..Len(doc.results) : WellFormed(doc.results[i])

\* The text of an element: its characters, markup left out.
InnerText(nodes) == [i \in 1..Len(nodes) |-> nodes[i].text]

\* The url extracted of a well-formed container.
ExtractedUrl(c) == <<"https://">> \o trim(inner_html(Head(c.result__url)))

\* The last container of the document that yields the url.
LastWith(doc, u) ==
    CHOOSE i \in 1..Len(doc.results) :
        /\ ExtractedUrl(doc.results[i]) = u
        /\ \A j \in (i + 1)..Len(doc.results) : ExtractedUrl(doc.results[j]) # u

\* C11 (malformed containers), as claimed: for every document without the
\* no-results marker the call ends with a mapping, from which the containers
\* lacking a sub-element are left out, or with a typed EngineError; it never
\* aborts.
C11_NoAbort ==
    Scraped =>
        /\ d_pc = "done"
        /\ d_out.tag \in {"Ok", "Err"}
        /\ d_out.tag = "Ok" =>
              DOMAIN d_out.map =
                  {ExtractedUrl(d_doc.results[i]) :
                      i \in {j \in 1..Len(d_doc.results) : WellFormed(d_doc.results[j])}}

\* C12 (mapping uniqueness): for a document without the marker whose containers
\* are all well-formed, the keys of the mapping returned are exactly the
\* distinct urls extracted, every key is the url field of its value, and the
\* value kept for a url is the result of the last container that yields it.
C12_LastWriteWins ==
    (Scraped /\ AllWellFormed(d_doc)) =>
        /\ d_pc = "done" /\ d_out.tag = "Ok"
        /\ DOMAIN d_out.map =
              {ExtractedUrl(d_doc.results[i]) : i \in 1..Len(d_doc.results)}
        /\ \A u \in DOMAIN d_out.map :
              /\ d_out.map[u].url = u
              /\ d_out.map[u] = SearchResultOf(d_doc.results[LastWith(d_doc, u)])

\* Two containers with different displayed urls and titles yield one url: the
\* mapping returned holds one entry, with the title of the second.
C12_Witness ==
    /\ Scraped /\ d_out.tag = "Ok"
    /\ Len(d_doc.results) = 2
    /\ d_doc.results[1].result__url # d_doc.results[2].result__url
    /\ d_doc.results[1].result__a # d_doc.results[2].result__a
    /\ Cardinality(DOMAIN d_out.map) = 1
    /\ \A u \in DOMAIN d_out.map :
          d_out.map[u].title = trim(inner_html(Head(d_doc.results[2].result__a)))

\* The containers of the document are well-formed and their displayed urls,
\* as displayed, differ pairwise.
DistinctDisplayed(doc) ==
    /\ AllWellFormed(doc)
    /\ \A i, j \in 1..Len(doc.results) :
          i # j => doc.results[i].result__url # doc.results[j].result__url

\* The same, for the displayed urls without their surrounding whitespace.
DistinctTrimmed(doc) ==
    /\ AllWellFormed(doc)
    /\ \A i, j \in 1..Len(doc.results) :
          i # j => ExtractedUrl(doc.results[i]) # ExtractedUrl(doc.results[j])

\* The mapping holds, for every container, the entry whose title, url and
\* description are the texts that Content gives of the container's elements,
\* trimmed, the url after "https://".
Extracted(Content(_)) ==
    /\ d_pc = "done" /\ d_out.tag = "Ok"
    /\ Cardinality(DOMAIN d_out.map) = Len(d_doc.results)
    /\ \A i \in 1..Len(d_doc.results) :
          LET c == d_doc.results[i]
              u == <<"https://">> \o trim(Content(Head(c.result__url)))
          IN
          /\ u \in DOMAIN d_out.map
          /\ d_out.map[u] =
                [title |-> trim(Content(Head(c.result__a))),
                 url |-> u,
                 description |-> trim(Content(Head(c.result__snippet))),
                 engines |-> {"duckduckgo"}]

\* C13 (extraction correctness), as claimed: m well-formed containers with
\* pairwise distinct displayed urls give m entries, each with the url
\* "https://" + the trimmed displayed url, the trimmed inner text of the title
\* and snippet elements, and the engines {"duckduckgo"}.
C13_InnerText == (Scraped /\ DistinctDisplayed(d_doc)) => Extracted(InnerText)

\* C13, as the code has it: m well-formed containers whose displayed urls
\* differ pairwise once trimmed give m entries, each with the url "https://" +
\* the trimmed displayed url, the trimmed inner html (markup included) of the
\* title and snippet elements, and the engines {"duckduckgo"}.
C13_InnerHtml == (Scraped /\ DistinctTrimmed(d_doc)) => Extracted(inner_html)

\* Two containers, one with a title in markup and one with whitespace around
\* its texts, gave two entries.
C13_Witness ==
    /\ Scraped /\ DistinctTrimmed(d_doc) /\ d_out.tag = "Ok"
    /\ Len(d_doc.results) = 2
    /\ d_doc.results[1].result__a = <<<<Bold("U")>>>>
    /\ d_doc.results[2].result__a = <<<<Txt(" "), Txt("T"), Txt(" ")>>>>
    /\ d_doc.results[2].result__url = <<<<Txt(" "), Txt("a"), Txt(" ")>>>>
    /\ Cardinality(DOMAIN d_out.map) = 2

\* The headers were built: the url was, and the user agent made a header value.
HeadersBuilt == d_pc \notin {"url", "headers"} /\ ~d_url.panic /\ d_in.user_agent_ok

\* C14 (one fetch): a call fetches at most once, and once when the headers
\* were built; when they were not, it ends with UnexpectedError and no fetch;
\* when the fetch failed, it ends with the error the fetch gave, after that
\* one fetch and with no document parsed.
C14_OneFetch ==
    /\ d_fetches <= 1
    /\ (HeadersBuilt /\ d_pc # "fetch") => d_fetches = 1
    /\ (d_pc \notin {"url", "headers"} /\ ~d_url.panic /\ ~d_in.user_agent_ok) =>
          d_pc = "done" /\ d_out = Err("UnexpectedError") /\ d_fetches = 0
    /\ d_fetched \notin {"none", "Ok"} =>
          /\ d_pc = "done" /\ d_out = Err(d_fetched)
          /\ d_fetches = 1 /\ d_doc = NoDocument

\* The fetch failed with RequestError, and the call ended with it.
C14_Witness ==
    /\ d_fetched = "RequestError" /\ d_fetches = 1
    /\ d_pc = "done" /\ d_out = Err("RequestError")

\* A call of cached_json or cache_results by caller c starts in this step.
Starts(c) == pc[c] = "idle" /\ pc'[c] # "idle"

\* C15 (failover is per call): a call that follows a call that returned,
\* whatever that one returned and wherever it left the cursor, sets the cursor
\* to 0 and sends its first attempt, the first command of the call, on
\* connection 0: the connections skipped as dropped before are tried again.
C15_FreshStart ==
    [][\A c \in Callers :
          (returned # -1 /\ Starts(c)) =>
              /\ current_connection' = 0
              /\ pc'[c] = "await"
              /\ attempts'[c] = <<Attempt(0, FirstCommand(op'[c]))>>]_vars

\* The call before left the cursor at pool_size, every connection skipped as
\* dropped, and this call has gone through the connections again, from 0.
C15_Witness ==
    /\ returned = pool_size /\ pool_size = MaxPool
    /\ \E c \in Callers :
          /\ pc[c] = "done" /\ result[c] = PoolExhausted
          /\ Len(attempts[c]) = pool_size
          /\ InOrder(attempts[c])

\* C16 (bounded attempts), as claimed: every call returns, none ends in a
\* panic; it makes at most pool_size attempts, and no two of them on the same
\* connection.
C16_Returns ==
    \A c \in Callers :
        Started(c) =>
            /\ pc[c] # "panicked"
            /\ Len(attempts[c]) <= pool_size
            /\ \A i, j \in 1..Len(attempts[c]) :
                  i # j => attempts[c][i].conn # attempts[c][j].conn

\* C16 on the clients with a connection.
C16_OnNonEmptyPool == pool_size >= 1 => C16_Returns

\* Every attempt is answered in the end.
SpecAnswered ==
    Spec /\ \A c \in Callers : WF_vars(\E net \in Nets : Answer(c, net))

\* C16, termination, on the clients with a connection: a call that waits for
\* an answer returns in the end.
C16_Terminates == \A c \in Callers : (pc[c] = "await") ~> (pc[c] = "done")

\* C17 (offset arithmetic), as claimed: for every page >= 2 the url is built,
\* without a panic, and its s and dc are the integers ceil(page / 2) * 30 and
\* ceil(page / 2) * 30 + 1, both within u32.
C17_NoOverflow ==
    (UrlBuilt /\ d_in.page \notin {U32(0), U32(1)}) =>
        LET exact == Times(CeilHalf(d_in.page), 30) IN
        /\ ~d_url.panic
        /\ Fits32(Plus(exact, 1))
        /\ d_url.s = <<exact>> /\ d_url.dc = <<Plus(exact, 1)>>

\* C17 on the pages up to 286331152, the largest whose offsets fit in a u32.
C17_WhereItFits ==
    (d_in.page.hi < 4369 \/ (d_in.page.hi = 4369 /\ d_in.page.lo <= 4368))
        => C17_NoOverflow

\* C18 (one key per call): every attempt of a call, on whatever connection,
\* sends the key hash_url(url) of the url of the call, the same for
\* cached_json and cache_results, and every attempt of cache_results sends the
\* value of the call; what calls came before has no part in it.
C18_SameKey ==
    \A c \in Callers :
        \A i \in 1..Len(attempts[c]) :
            LET cmd == attempts[c][i].cmd IN
            /\ cmd.key = hash_url(op[c].url)
            /\ cmd.key = attempts[c][1].cmd.key
            /\ cmd.name = IF op[c].kind = "get" THEN "GET" ELSE "SETEX"
            /\ op[c].kind = "put" => cmd.val = op[c].val

\* cache_results, called after another call returned, is at its second
\* attempt: both attempts send the key and the value of the call.
C18_Witness ==
    \E c \in Callers :
        /\ op[c].kind = "put" /\ Len(attempts[c]) = 2
        /\ attempts[c][2].cmd.key = attempts[c][1].cmd.key
        /\ attempts[c][2].cmd.val = op[c].val
        /\ returned # -1

\* C19 (frame): no step of cached_json or cache_results changes the
\* connections of the pool, their order or pool_size: of the fields of the
\* client, they change the cursor alone.
C19_PoolUnchanged ==
    [][built = "ok" =>
          connection_pool' = connection_pool /\ pool_size' = pool_size]_vars

\* A call went through the whole pool and ended with the pool exhausted: the
\* cursor has moved, the pool is the one that new built.
C19_Witness ==
    /\ built = "ok" /\ pool_size = MaxPool
    /\ current_connection = pool_size
    /\ connection_pool = [i \in 1..new_args.size |-> i]
    /\ pool_size = new_args.size
    /\ \E c \in Callers : pc[c] = "done" /\ result[c] = PoolExhausted

\* The class of the result of an attempt.
Class(e) ==
    IF e.out = "pending" THEN "pending"
    ELSE IF e.out = "Ok" THEN "success"
    ELSE IF Dropped(e) THEN "dropped"
    ELSE "other"

\* The failover of the specification, on a pool of `size` connections whose
\* attempts gave the classes cl so far: how many attempts were made, where the
\* cursor is, and how the call stands.
Failover(size, cl) ==
    LET n == Len(cl) IN
    IF size = 0 THEN [attempted |-> 0, cursor |-> 0, outcome |-> "panic"]
    ELSE IF n = 0 \/ n > size \/ \E i \in 1..(n - 1) : cl[i] # "dropped"
    THEN [attempted |-> n, cursor |-> -1, outcome |-> "none"]
    ELSE IF cl[n] = "pending"
    THEN [attempted |-> n, cursor |-> n - 1, outcome |-> "pending"]
    ELSE IF cl[n] = "success"
    THEN [attempted |-> n, cursor |-> n - 1, outcome |-> "Ok"]
    ELSE IF cl[n] = "other"
    THEN [attempted |-> n, cursor |-> n - 1, outcome |-> "RedisError"]
    ELSE IF n = size
    THEN [attempted |-> n, cursor |-> n,
          outcome |-> "PoolExhaustionWithConnectionDropError"]
    ELSE [attempted |-> n, cursor |-> -1, outcome |-> "none"]

\* How the call of caller c stands.
Observed(c) ==
    [attempted |-> Len(attempts[c]),
     cursor |-> current_connection,
     outcome |-> IF pc[c] = "panicked" THEN "panic"
                 ELSE IF pc[c] = "await" THEN "pending"
                 ELSE result[c].tag]

\* C20 (one failover for both): a call of cached_json and a call of
\* cache_results stand as the one failover does on the size of the pool and
\* the classes of the results of the attempts, the kind of the call having no
\* part: the same connections attempted in the same order, the same cursor,
\* the same class of outcome.
C20_SameFailover ==
    \A c \in Callers :
        Started(c) =>
            /\ InOrder(attempts[c])
            /\ Observed(c) =
                  Failover(pool_size,
                           [i \in 1..Len(attempts[c]) |-> Class(attempts[c][i])])

\* cache_results found every connection of the pool dropped, and ended as
\* cached_json does: the pool exhausted, the cursor at pool_size.
C20_Witness ==
    \E c \in Callers :
        /\ op[c].kind = "put" /\ pc[c] = "done"
        /\ pool_size = MaxPool /\ Len(attempts[c]) = MaxPool
        /\ \A i \in 1..Len(attempts[c]) : Class(attempts[c][i]) = "dropped"
        /\ result[c].tag = "PoolExhaustionWithConnectionDropError"

====
